---- MODULE Spec2Model ----
(***************************************************************************)
(* The in-memory vector store of rag_researcher/modules/vector_store.py:   *)
(* the document list, the derived embedding matrix, the distance metric,   *)
(* the pickled snapshot file, and the operations add_documents,            *)
(* similarity_search, save and load.                                       *)
(*                                                                         *)
(* Conventions.  Python's 0-based positions are 1-based here (document i   *)
(* of the source is documents[i+1]).  A dict is a function; "key in doc"   *)
(* is key \in DOMAIN doc.  A float score is kept exactly, as the pair      *)
(* [num, den2] standing for num / sqrt(den2); floating-point rounding is   *)
(* not modelled.  The value None of embedding_matrix is the empty sequence *)
(* (the code never builds a matrix with no rows).                          *)
(***************************************************************************)
EXTENDS Integers, Sequences, FiniteSets, TLC

VARIABLES documents, embedding_matrix, distance_metric, snapshot, call, ret,
          retriever, embedder, pc

vars == <<documents, embedding_matrix, distance_metric, snapshot, call, ret,
          retriever, embedder, pc>>

(* the Retriever object, its embedder and the position of a save in progress *)
around == <<retriever, embedder, pc>>

(***************************************************************************)
(* Bounds of the model.                                                    *)
(***************************************************************************)
MaxDocs == 3

MaxBatch == 2

MaxK == 3

(***************************************************************************)
(* The documents handed to the store: dicts with 'text', 'metadata' and,   *)
(* once embedded, 'embedding'.  DocA..DocD share dimension 2, DocWide has  *)
(* dimension 3, DocBare was never embedded.                                *)
(***************************************************************************)
DocA == [text |-> "alpha", embedding |-> <<1, 0>>,
         metadata |-> [source |-> "a", chunk_id |-> 0]]

DocB == [text |-> "beta", embedding |-> <<0, 1>>,
         metadata |-> [source |-> "a", chunk_id |-> 1]]

DocC == [text |-> "gamma", embedding |-> <<1, 1>>,
         metadata |-> [source |-> "b", chunk_id |-> 0]]

DocD == [text |-> "alpha two", embedding |-> <<2, 0>>,
         metadata |-> [source |-> "b", chunk_id |-> 2]]

DocWide == [text |-> "delta", embedding |-> <<1, 0, 0>>,
            metadata |-> [source |-> "b", chunk_id |-> 1]]

DocBare == [text |-> "epsilon",
            metadata |-> [source |-> "a", chunk_id |-> 2]]

DocUniverse == {DocA, DocB, DocC, DocD, DocWide, DocBare}

SeqsUpTo(S, n) == UNION {[1..m -> S] : m \in 0..n}

Batches == SeqsUpTo(DocUniverse, MaxBatch)

Metrics == {"cosine", "euclidean", "dot", "manhattan"}

NoneMatrix == <<>>

NoFilter == [key \in {} |-> ""]

(***************************************************************************)
(* The file at the snapshot path: absent, not readable, not a pickle, the  *)
(* beginning of a pickle ("partial": opened for writing and not yet        *)
(* written to the end), or the pickled dict {'documents': ...,             *)
(* 'distance_metric': ...}.                                                *)
(***************************************************************************)
NoPickle(state) == [state |-> state, documents |-> <<>>, distance_metric |-> ""]

Pickle(docs, metric) ==
    [state |-> "pickle", documents |-> docs, distance_metric |-> metric]

(***************************************************************************)
(* The last call and what it gave back to its caller.                      *)
(***************************************************************************)
Call(op, batch, query, top_k, filter_dict) ==
    [op |-> op, batch |-> batch, query_embedding |-> query, top_k |-> top_k,
     filter_dict |-> filter_dict]

Returned(log, results, indices) ==
    [kind |-> "return", exc |-> "", log |-> log, results |-> results,
     indices |-> indices]

Raised(exc) ==
    [kind |-> "raise", exc |-> exc, log |-> "", results |-> <<>>,
     indices |-> <<>>]

(***************************************************************************)
(* Retriever.__init__ with _init_optional_dependencies: the defaults of    *)
(* the calls and the two optional collaborators.  The reranker is loaded   *)
(* only when reranking is enabled, and a failed load disables reranking;   *)
(* the keyword search is available only when hybrid search is enabled and  *)
(* nltk imports, and a failed import disables hybrid search.  "broken" is  *)
(* a collaborator that was set up and raises when it is called.            *)
(***************************************************************************)
Rational(n, d) == [n |-> n, d |-> d]

Retriever(top_k, similarity_threshold, reranking_enabled, rerank_lib, hybrid_search_enabled, nltk_lib, hybrid_search_weight) ==
    [top_k |-> top_k,
     similarity_threshold |-> similarity_threshold,
     reranking_enabled |-> reranking_enabled /\ rerank_lib # "missing",
     reranker |-> IF reranking_enabled /\ rerank_lib # "missing"
                  THEN rerank_lib ELSE "none",
     hybrid_search_enabled |-> hybrid_search_enabled /\ nltk_lib # "missing",
     keyword_search_available |-> hybrid_search_enabled /\ nltk_lib # "missing",
     nltk |-> nltk_lib,
     hybrid_search_weight |-> hybrid_search_weight]

(* Retriever(vector_store, embedder): every default of the signature *)
DefaultRetriever ==
    Retriever(5, Rational(0, 1), TRUE, "loaded", TRUE, "loaded", Rational(7, 10))

(***************************************************************************)
(* VectorStore.__init__, and the retriever and embedder built around it.   *)
(***************************************************************************)
Init ==
    /\ documents = <<>>
    /\ embedding_matrix = NoneMatrix
    /\ distance_metric \in Metrics
    /\ snapshot \in {NoPickle(s) : s \in {"missing", "corrupt", "unreadable"}}
    /\ call = Call("__init__", <<>>, <<>>, 0, NoFilter)
    /\ ret = Returned("info", <<>>, <<>>)
    /\ retriever = DefaultRetriever
    /\ embedder = "encodes"
    /\ pc = "idle"

(***************************************************************************)
(* np.vstack over 1-D arrays: defined only when all have one length.       *)
(***************************************************************************)
VStackOk(embeddings) ==
    \A i, j \in 1..Len(embeddings) : Len(embeddings[i]) = Len(embeddings[j])

Embeddings(docs) == [i \in 1..Len(docs) |-> docs[i].embedding]

HasEmbedding(doc) == "embedding" \in DOMAIN doc

(* list.extend: the batch goes after the documents already stored *)
ExtendFront(docs, batch) == batch \o docs

Extend(docs, batch) == docs \o batch

(***************************************************************************)
(* VectorStore.add_documents, with the _update_embedding_matrix call it    *)
(* ends with.  The list is extended before the matrix is stacked, so a     *)
(* ValueError of np.vstack leaves the extended list with the old matrix.   *)
(***************************************************************************)
AddDocuments(batch) ==
    /\ Len(documents) + Len(batch) <= MaxDocs
    /\ call' = Call("add_documents", batch, <<>>, 0, NoFilter)
    /\ UNCHANGED <<distance_metric, snapshot, around>>
    /\ IF batch = <<>>
       THEN /\ ret' = Returned("warning", <<>>, <<>>)
            /\ UNCHANGED <<documents, embedding_matrix>>
       ELSE IF \E i \in 1..Len(batch) : ~HasEmbedding(batch[i])
       THEN /\ ret' = Returned("error", <<>>, <<>>)
            /\ UNCHANGED <<documents, embedding_matrix>>
       ELSE /\ documents' = Extend(documents, batch)
            /\ IF VStackOk(Embeddings(documents'))
               THEN /\ embedding_matrix' = Embeddings(documents')
                    /\ ret' = Returned("info", <<>>, <<>>)
               ELSE /\ embedding_matrix' = embedding_matrix
                    /\ ret' = Raised("ValueError")

(***************************************************************************)
(* VectorStore.save: pickles the document list and the metric to the path. *)
(***************************************************************************)
Save ==
    /\ call' = Call("save", <<>>, <<>>, 0, NoFilter)
    /\ UNCHANGED <<documents, embedding_matrix, distance_metric, around>>
    /\ IF snapshot.state = "unreadable"
       THEN /\ ret' = Raised("PermissionError")
            /\ UNCHANGED snapshot
       ELSE /\ snapshot' = Pickle(documents, distance_metric)
            /\ ret' = Returned("info", <<>>, <<>>)

(***************************************************************************)
(* VectorStore.load: the store held by the program is replaced by the one  *)
(* load returns; when load raises, the program keeps the store it had.     *)
(***************************************************************************)
Load ==
    /\ call' = Call("load", <<>>, <<>>, 0, NoFilter)
    /\ UNCHANGED <<snapshot, around>>
    /\ IF snapshot.state = "missing"
       THEN /\ documents' = <<>>
            /\ embedding_matrix' = NoneMatrix
            /\ distance_metric' = "cosine"
            /\ ret' = Returned("error", <<>>, <<>>)
       ELSE IF snapshot.state = "unreadable"
       THEN /\ ret' = Raised("PermissionError")
            /\ UNCHANGED <<documents, embedding_matrix, distance_metric>>
       ELSE IF snapshot.state = "corrupt"
       THEN /\ ret' = Raised("UnpicklingError")
            /\ UNCHANGED <<documents, embedding_matrix, distance_metric>>
       ELSE IF snapshot.state = "partial"
       THEN /\ ret' = Raised("EOFError")
            /\ UNCHANGED <<documents, embedding_matrix, distance_metric>>
       ELSE IF snapshot.documents = <<>>
       THEN /\ documents' = <<>>
            /\ embedding_matrix' = NoneMatrix
            /\ distance_metric' = snapshot.distance_metric
            /\ ret' = Returned("info", <<>>, <<>>)
       ELSE IF VStackOk(Embeddings(snapshot.documents))
       THEN /\ documents' = snapshot.documents
            /\ embedding_matrix' = Embeddings(snapshot.documents)
            /\ distance_metric' = snapshot.distance_metric
            /\ ret' = Returned("info", <<>>, <<>>)
       ELSE /\ ret' = Raised("ValueError")
            /\ UNCHANGED <<documents, embedding_matrix, distance_metric>>

(***************************************************************************)
(* Vectors and scores.  A score is the pair [num, den2], read as           *)
(* num / sqrt(den2) with den2 > 0, so that cosine and euclidean scores of  *)
(* integer vectors are kept without rounding.                              *)
(***************************************************************************)
RECURSIVE DotUpTo(_, _, _)
DotUpTo(u, v, n) == IF n = 0 THEN 0 ELSE DotUpTo(u, v, n - 1) + u[n] * v[n]

Dot(u, v) == DotUpTo(u, v, Len(u))

Norm2(v) == Dot(v, v)

Score(num, den2) == [num |-> num, den2 |-> den2]

SignedSquare(x) == IF x < 0 THEN 0 - x * x ELSE x * x

ScoreLess(a, b) == SignedSquare(a.num) * b.den2 < SignedSquare(b.num) * a.den2

ScoreEq(a, b) == ~ScoreLess(a, b) /\ ~ScoreLess(b, a)

ClampNorm2(n2) == IF n2 = 0 THEN 1 ELSE n2

(***************************************************************************)
(* The three scoring branches of similarity_search.  np.dot of an (n, d)   *)
(* matrix and a vector of length e is defined only for d = e; the          *)
(* subtraction of the euclidean branch broadcasts, so it is defined also   *)
(* when d = 1 or e = 1.  A zero query is left as it is and a zero row is   *)
(* divided by the clamp, so either scores 0.                               *)
(***************************************************************************)
Broadcast(v, n) == [i \in 1..n |-> IF Len(v) = 1 THEN v[1] ELSE v[i]]

MaxOf(a, b) == IF a >= b THEN a ELSE b

MinOf(a, b) == IF a <= b THEN a ELSE b

Dist2(row, q) ==
    LET n == MaxOf(Len(row), Len(q))
        diff == [i \in 1..n |-> Broadcast(row, n)[i] - Broadcast(q, n)[i]]
    IN  Norm2(diff)

CosineScoreRawQuery(row, q) ==
    Score(Dot(row, q), ClampNorm2(Norm2(row)))

CosineScore(row, q) ==
    Score(Dot(row, q), ClampNorm2(Norm2(row)) * ClampNorm2(Norm2(q)))

EuclideanScore(row, q) ==
    LET d2 == Dist2(row, q) IN IF d2 = 0 THEN Score(0, 1) ELSE Score(0 - d2, d2)

DotScore(row, q) == Score(Dot(row, q), 1)

ShapeError(matrix, q, metric) ==
    LET d == Len(matrix[1])
        e == Len(q)
    IN  IF metric = "euclidean" THEN d # e /\ d # 1 /\ e # 1 ELSE d # e

(* [i \in 1..n |-> e] as a sequence value *)
AsSeq(f, n) == SubSeq(f, 1, n)

RowScore(row, q, metric) ==
    IF metric = "cosine" THEN CosineScore(row, q)
    ELSE IF metric = "euclidean" THEN EuclideanScore(row, q)
    ELSE DotScore(row, q)

ScoresOf(matrix, q, metric) ==
    AsSeq([i \in 1..Len(matrix) |-> RowScore(matrix[i], q, metric)], Len(matrix))

(***************************************************************************)
(* numpy's index functions.  np.argsort gives some permutation that sorts  *)
(* ascending and np.argpartition some permutation with position kth in its *)
(* sorted place; the default kind is not stable, so the order among equal  *)
(* scores is whatever the build produces.                                  *)
(***************************************************************************)
Perms(n) == {p \in [1..n -> 1..n] : \A i, j \in 1..n : i # j => p[i] # p[j]}

PermsOfLen == [n \in 0..MaxDocs |-> Perms(n)]

ArgSort(s) ==
    {p \in PermsOfLen[Len(s)] :
        \A i \in 1..(Len(s) - 1) : ~ScoreLess(s[p[i + 1]], s[p[i]])}

ArgPartition(s, kth) ==
    LET n == Len(s)
        pos == (IF kth < 0 THEN kth + n ELSE kth) + 1
    IN  {p \in PermsOfLen[n] :
            /\ \A i \in 1..(pos - 1) : ~ScoreLess(s[p[pos]], s[p[i]])
            /\ \A i \in (pos + 1)..n : ~ScoreLess(s[p[i]], s[p[pos]])}

ReverseSkipped(a) == a

(* a[::-1] *)
Reverse(a) == AsSeq([i \in 1..Len(a) |-> a[Len(a) + 1 - i]], Len(a))

Take(a, idx) == AsSeq([i \in 1..Len(idx) |-> a[idx[i]]], Len(idx))

(* a[start:] of Python, start 0-based and possibly negative *)
SliceFrom(a, start) ==
    LET n == Len(a)
        from == IF start < 0 THEN MaxOf(n + start, 0) ELSE MinOf(start, n)
    IN  SubSeq(a, from + 1, n)

Range(a) == {a[i] : i \in 1..Len(a)}

(***************************************************************************)
(* The selection step: top_indices of similarity_search, as the set of     *)
(* index lists the build may produce for these scores and this top_k.      *)
(* The argsort of the selected scores reaches the same orders whichever    *)
(* way argpartition arranged the slice, so one arrangement is taken for    *)
(* each selected index set.                                                *)
(***************************************************************************)
OnePerSelection(tops) ==
    {CHOOSE top \in tops : Range(top) = sel : sel \in {Range(top) : top \in tops}}

TopIndices(scores, top_k) ==
    IF Len(scores) <= top_k
    THEN {Reverse(p) : p \in ArgSort(scores)}
    ELSE LET tops == {SliceFrom(part, 0 - top_k) :
                         part \in ArgPartition(scores, 0 - top_k)}
         IN  UNION {{Take(top, Reverse(p)) : p \in ArgSort(Take(scores, top))} :
                    top \in OnePerSelection(tops)}

(***************************************************************************)
(* VectorStore._apply_filters: the positions of the documents that have    *)
(* every key of the filter, as a key of the document dict itself, with an  *)
(* equal value.                                                            *)
(***************************************************************************)
Matches(doc, filter_dict) ==
    \A key \in DOMAIN filter_dict :
        key \in DOMAIN doc /\ doc[key] = filter_dict[key]

RECURSIVE ApplyFiltersUpTo(_, _, _)
ApplyFiltersUpTo(docs, filter_dict, n) ==
    IF n = 0 THEN <<>>
    ELSE LET rest == ApplyFiltersUpTo(docs, filter_dict, n - 1)
         IN  IF Matches(docs[n], filter_dict) THEN Append(rest, n) ELSE rest

ApplyFilters(docs, filter_dict) == ApplyFiltersUpTo(docs, filter_dict, Len(docs))

Arange(n) == [i \in 1..n |-> i]

(***************************************************************************)
(* scores[filtered_indices] raises IndexError when an index is past the    *)
(* end of scores, and also when no document matched: np.array([]) is an    *)
(* array of floats, which numpy refuses as an index.                       *)
(***************************************************************************)
IndexError(scores, filtered_indices) ==
    \/ filtered_indices = <<>>
    \/ \E i \in 1..Len(filtered_indices) : filtered_indices[i] > Len(scores)

ResultDoc(doc, score) == [similarity_score |-> score] @@ doc

Queries == {<<1, 0>>}

Filters == {NoFilter, [text |-> "alpha"], [source |-> "a"]}

(***************************************************************************)
(* VectorStore.similarity_search: what the call may give back, a return of *)
(* the result list (with the store indices of the results) or a raise.     *)
(***************************************************************************)
SearchOutcomes(query_embedding, top_k, filter_dict) ==
    IF documents = <<>> \/ embedding_matrix = NoneMatrix
    THEN {Returned("warning", <<>>, <<>>)}
    ELSE IF distance_metric \notin {"cosine", "euclidean", "dot"}
    THEN {Returned("error", <<>>, <<>>)}
    ELSE IF ShapeError(embedding_matrix, query_embedding, distance_metric)
    THEN {Raised("ValueError")}
    ELSE LET all_scores == ScoresOf(embedding_matrix, query_embedding,
                                    distance_metric)
             filtered == filter_dict # NoFilter
             filtered_indices == ApplyFilters(documents, filter_dict)
             doc_indices == IF filtered THEN filtered_indices
                            ELSE Arange(Len(documents))
         IN  IF filtered /\ IndexError(all_scores, filtered_indices)
             THEN {Raised("IndexError")}
             ELSE LET scores == IF filtered
                                THEN Take(all_scores, filtered_indices)
                                ELSE all_scores
                  IN  {Returned("info",
                           AsSeq([i \in 1..Len(top_indices) |->
                                     ResultDoc(documents[doc_indices[top_indices[i]]],
                                               scores[top_indices[i]])],
                                 Len(top_indices)),
                           Take(doc_indices, top_indices)) :
                       top_indices \in TopIndices(scores, top_k)}

SimilaritySearch(query_embedding, top_k, filter_dict) ==
    /\ call' = Call("similarity_search", <<>>, query_embedding, top_k, filter_dict)
    /\ UNCHANGED <<documents, embedding_matrix, distance_metric, snapshot, around>>
    /\ \E outcome \in SearchOutcomes(query_embedding, top_k, filter_dict) :
          ret' = outcome

(***************************************************************************)
(* Exact arithmetic of the retriever's floats: rationals n / d in lowest   *)
(* terms with d > 0.  A score num / sqrt(den2) enters the weighted sum     *)
(* through its rational value, which the documents and queries of the      *)
(* retrieval model all have (den2 is a perfect square for them).           *)
(***************************************************************************)
Abs(x) == IF x < 0 THEN 0 - x ELSE x

RECURSIVE GCD(_, _)
GCD(a, b) == IF b = 0 THEN a ELSE GCD(b, a % b)

Normalize(n, d) == LET g == GCD(Abs(n), d) IN Rational(n \div g, d \div g)

RatAdd(a, b) == Normalize(a.n * b.d + b.n * a.d, a.d * b.d)

RatMul(a, b) == Normalize(a.n * b.n, a.d * b.d)

RatLess(a, b) == a.n * b.d < b.n * a.d

Isqrt(n) == CHOOSE r \in 0..n : r * r = n

ToRational(score) == Normalize(score.num, Isqrt(score.den2))

ToScore(r) == Score(r.n, r.d * r.d)

(***************************************************************************)
(* sorted(results, key=lambda x: x.get(field, 0), reverse=True): a stable  *)
(* sort, so documents of equal key keep the order they came in.            *)
(***************************************************************************)
Get(dict, key, default) == IF key \in DOMAIN dict THEN dict[key] ELSE default

SortRank(keys, i) ==
    Cardinality({j \in 1..Len(keys) :
        \/ ScoreLess(keys[i], keys[j])
        \/ j < i /\ ScoreEq(keys[i], keys[j])}) + 1

SortedDescending(results, field) ==
    LET n == Len(results)
        keys == AsSeq([k \in 1..n |-> Get(results[k], field, Score(0, 1))], n)
        rank == AsSeq([i \in 1..n |-> SortRank(keys, i)], n)
    IN  AsSeq([r \in 1..n |-> results[CHOOSE i \in 1..n : rank[i] = r]], n)

(* a[:stop] of Python for stop >= 0 *)
SliceTo(a, stop) == SubSeq(a, 1, MinOf(stop, Len(a)))

(***************************************************************************)
(* The lexical collaborator on the texts of the model: nltk's              *)
(* word_tokenize, str.isalnum, str.lower and the English stop words.       *)
(***************************************************************************)
WordTokenize(text) ==
    CASE text = "alpha two" -> <<"alpha", "two">>
      [] text = "alpha alpha two" -> <<"alpha", "alpha", "two">>
      [] text = "The beta, the alpha." ->
            <<"The", "beta", ",", "the", "alpha", ".">>
      [] text = "the" -> <<"the">>
      [] text = "" -> <<>>
      [] OTHER -> <<text>>

IsAlnum(token) == token \notin {",", "."}

Lower(token) == IF token = "The" THEN "the" ELSE token

StopWords == {"the"}

KeywordTokens(text) ==
    LET Kept(token) == IsAlnum(token) /\ Lower(token) \notin StopWords
        kept == SelectSeq(WordTokenize(text), Kept)
    IN  AsSeq([i \in 1..Len(kept) |-> Lower(kept[i])], Len(kept))

(* doc_counter[token] *)
Count(token, tokens) == Cardinality({i \in 1..Len(tokens) : tokens[i] = token})

RECURSIVE TermFrequencySum(_, _, _)
TermFrequencySum(query_tokens, doc_tokens, n) ==
    IF n = 0 THEN Rational(0, 1)
    ELSE LET so_far == TermFrequencySum(query_tokens, doc_tokens, n - 1)
             count == Count(query_tokens[n], doc_tokens)
         IN  IF count > 0
             THEN RatAdd(so_far, Normalize(count, Len(doc_tokens)))
             ELSE so_far

KeywordScoreOfSum(query, text) ==
    LET query_tokens == KeywordTokens(query)
        doc_tokens == KeywordTokens(text)
    IN  TermFrequencySum(query_tokens, doc_tokens, Len(query_tokens))

KeywordScore(query, text) ==
    LET query_tokens == KeywordTokens(query)
        doc_tokens == KeywordTokens(text)
        score == TermFrequencySum(query_tokens, doc_tokens, Len(query_tokens))
    IN  IF Len(query_tokens) > 0
        THEN RatMul(score, Rational(1, Len(query_tokens)))
        ELSE Rational(0, 1)

(***************************************************************************)
(* Retriever._perform_keyword_search over all the documents of the store.  *)
(***************************************************************************)
PerformKeywordSearchUnguarded(query, docs, top_k) ==
    LET results ==
            AsSeq([i \in 1..Len(docs) |->
                      [keyword_score |-> ToScore(KeywordScore(query, docs[i].text))]
                          @@ docs[i]],
                  Len(docs))
    IN  SliceTo(SortedDescending(results, "keyword_score"), top_k)

PerformKeywordSearch(query, docs, top_k) ==
    IF ~retriever.keyword_search_available \/ docs = <<>>
    THEN <<>>
    ELSE IF retriever.nltk = "broken"
    THEN <<>>
    ELSE LET results ==
                 AsSeq([i \in 1..Len(docs) |->
                           [keyword_score |->
                               ToScore(KeywordScore(query, docs[i].text))]
                               @@ docs[i]],
                       Len(docs))
         IN  SliceTo(SortedDescending(results, "keyword_score"), top_k)

(***************************************************************************)
(* The hybrid combination of retrieve.  doc_id is the 'source' of the      *)
(* metadata followed by str() of its 'chunk_id', each '' when absent.  The *)
(* two score maps keep the score of the last document of an id, the        *)
(* document of an id is the first one found in semantic_results +          *)
(* keyword_results.  all_doc_ids is a set of strings: the order in which   *)
(* it is walked is the interpreter's, and the stable sort keeps that order *)
(* among documents of equal combined score.                                *)
(***************************************************************************)
DocId(doc) ==
    LET metadata == Get(doc, "metadata", NoFilter)
    IN  Get(metadata, "source", "") \o
        (IF "chunk_id" \in DOMAIN metadata THEN ToString(metadata.chunk_id) ELSE "")

WithId(results, doc_id) == {i \in 1..Len(results) : DocId(results[i]) = doc_id}

Largest(S) == CHOOSE x \in S : \A y \in S : y <= x

Smallest(S) == CHOOSE x \in S : \A y \in S : x <= y

(* the value the loop leaves in semantic_scores / keyword_scores, .get(doc_id, 0) *)
ScoreOfId(results, field, doc_id) ==
    IF WithId(results, doc_id) = {} THEN Score(0, 1)
    ELSE Get(results[Largest(WithId(results, doc_id))], field, Score(0, 1))

FirstWithId(results, doc_id) == results[Smallest(WithId(results, doc_id))]

RECURSIVE DistinctIds(_, _)
DistinctIds(results, n) ==
    IF n = 0 THEN <<>>
    ELSE LET rest == DistinctIds(results, n - 1)
         IN  IF DocId(results[n]) \in Range(rest) THEN rest
             ELSE Append(rest, DocId(results[n]))

(* the orders in which the set all_doc_ids may be walked *)
SetOrders(ids) == {Take(ids, p) : p \in PermsOfLen[Len(ids)]}

CombinedScoreSwapped(hybrid_search_weight, semantic_score, keyword_score) ==
    ToScore(RatAdd(RatMul(hybrid_search_weight, ToRational(keyword_score)),
                   RatMul(RatAdd(Rational(1, 1),
                                 Rational(0 - hybrid_search_weight.n,
                                          hybrid_search_weight.d)),
                          ToRational(semantic_score))))

CombinedScore(hybrid_search_weight, semantic_score, keyword_score) ==
    ToScore(RatAdd(RatMul(hybrid_search_weight, ToRational(semantic_score)),
                   RatMul(RatAdd(Rational(1, 1),
                                 Rational(0 - hybrid_search_weight.n,
                                          hybrid_search_weight.d)),
                          ToRational(keyword_score))))

CombinedResults(all_doc_ids, semantic_results, keyword_results, hybrid_search_weight) ==
    AsSeq([i \in 1..Len(all_doc_ids) |->
        LET doc_id == all_doc_ids[i]
            doc == FirstWithId(semantic_results \o keyword_results, doc_id)
            semantic_score == ScoreOfId(semantic_results, "similarity_score", doc_id)
            keyword_score == ScoreOfId(keyword_results, "keyword_score", doc_id)
        IN  [similarity_score |-> CombinedScore(hybrid_search_weight,
                                                semantic_score, keyword_score),
             semantic_score |-> semantic_score,
             keyword_score |-> keyword_score] @@ doc],
          Len(all_doc_ids))

(* lines 310-352: the sorted lists the combination may build; the document  *)
(* built for an id does not depend on the place of the id in the walk, so   *)
(* the documents are built once and put in each order                       *)
Combine(semantic_results, keyword_results, hybrid_search_weight) ==
    LET both == semantic_results \o keyword_results
        ids == DistinctIds(both, Len(both))
        built == CombinedResults(ids, semantic_results, keyword_results,
                                 hybrid_search_weight)
    IN  {SortedDescending(combined_results, "similarity_score") :
         combined_results \in SetOrders(built)}

(* what the hybrid step leaves: the sorted list and results, line 353 *)
Combined(combined_results, results) ==
    [combined_results |-> combined_results, results |-> results]

(***************************************************************************)
(* The steps of retrieve after the combination: the threshold, which is    *)
(* applied only when it is above 0, and the reranking or the cut to top_k. *)
(* The reranker is the cross-encoder on (query, text) pairs; RerankLogit   *)
(* stands for its logits on the texts of the model.                        *)
(***************************************************************************)
PassesThreshold(doc, similarity_threshold) ==
    ~ScoreLess(Get(doc, "similarity_score", Score(0, 1)),
               ToScore(similarity_threshold))

ApplyThresholdUnlessAbove(results, similarity_threshold) ==
    IF RatLess(Rational(0, 1), similarity_threshold)
    THEN results
    ELSE LET Kept(doc) == PassesThreshold(doc, similarity_threshold)
         IN  SelectSeq(results, Kept)

ApplyThreshold(results, similarity_threshold) ==
    IF RatLess(Rational(0, 1), similarity_threshold)
    THEN LET Kept(doc) == PassesThreshold(doc, similarity_threshold)
         IN  SelectSeq(results, Kept)
    ELSE results

RerankLogit(query, text) ==
    CASE text = "alpha" -> Score(0 - 1, 1)
      [] text = "alpha two" -> Score(2, 1)
      [] OTHER -> Score(0, 1)

Reranked(results, rerank) == [results |-> results, rerank |-> rerank]

RerankResultsUncut(query, results, top_k) ==
    IF ~retriever.reranking_enabled \/ retriever.reranker = "none" \/ results = <<>>
    THEN Reranked(SliceTo(results, top_k), "skipped")
    ELSE IF retriever.reranker = "broken"
    THEN Reranked(results, "failed")
    ELSE LET scored == AsSeq([i \in 1..Len(results) |->
                                 [rerank_score |->
                                     RerankLogit(query, Get(results[i], "text", ""))]
                                     @@ results[i]],
                             Len(results))
         IN  Reranked(SliceTo(SortedDescending(scored, "rerank_score"), top_k),
                      "ran")

(* Retriever._rerank_results *)
RerankResults(query, results, top_k) ==
    IF ~retriever.reranking_enabled \/ retriever.reranker = "none" \/ results = <<>>
    THEN Reranked(SliceTo(results, top_k), "skipped")
    ELSE IF retriever.reranker = "broken"
    THEN Reranked(SliceTo(results, top_k), "failed")
    ELSE LET scored == AsSeq([i \in 1..Len(results) |->
                                 [rerank_score |->
                                     RerankLogit(query, Get(results[i], "text", ""))]
                                     @@ results[i]],
                             Len(results))
         IN  Reranked(SliceTo(SortedDescending(scored, "rerank_score"), top_k),
                      "ran")

RerankOrKeep(query, results, top_k, reranking_enabled) ==
    IF reranking_enabled /\ retriever.reranker # "none" /\ results # <<>>
    THEN RerankResults(query, results, top_k)
    ELSE Reranked(results, "skipped")

(* lines 366-371 *)
RerankOrCut(query, results, top_k, reranking_enabled) ==
    IF reranking_enabled /\ retriever.reranker # "none" /\ results # <<>>
    THEN RerankResults(query, results, top_k)
    ELSE Reranked(SliceTo(results, top_k), "skipped")

(* the lists whose (query, text) pairs _rerank_results hands to the         *)
(* tokenizer and the model of the reranker, in the order of the calls: one  *)
(* batch of all the pairs (lines 224-235), none when line 217 returns       *)
RerankerCalls(query, results) ==
    IF ~retriever.reranking_enabled \/ retriever.reranker = "none" \/ results = <<>>
    THEN <<>>
    ELSE <<results>>

(* lines 366-371: the calls of the reranker that one retrieve makes *)
RerankOrCutCalls(query, results, reranking_enabled) ==
    IF reranking_enabled /\ retriever.reranker # "none" /\ results # <<>>
    THEN RerankerCalls(query, results)
    ELSE <<>>

(***************************************************************************)
(* TextEmbedder.embed_text: the model's vector for the text, or, when the  *)
(* model is missing or its provider fails, a vector of np.random.rand in   *)
(* place of it; encode of sentence_transformers has no handler, so its     *)
(* exception leaves embed_text.                                            *)
(***************************************************************************)
QueryVector(text) == IF text = "two" THEN <<0 - 1, 0>> ELSE <<1, 0>>

(* np.random.rand draws each component from [0, 1): of the integer vectors *)
(* of the model that is the zero vector                                    *)
PlaceholderVectors == {<<0, 0>>}

Embedded(kind, vector) == [kind |-> kind, vector |-> vector]

EmbedText(text) ==
    IF embedder = "encodes" THEN {Embedded("vector", QueryVector(text))}
    ELSE IF embedder = "raises" THEN {Embedded("raise", <<>>)}
    ELSE {Embedded("placeholder", v) : v \in PlaceholderVectors}

(***************************************************************************)
(* Retriever.retrieve.  An argument left out is None; the call and what    *)
(* its steps produced are kept in call, what it gave back in ret.          *)
(***************************************************************************)
None == <<>>

Given(value) == <<value>>

Resolve(argument, default) == IF argument = None THEN default ELSE argument[1]

RetrieveCall(query, top_k, similarity_threshold, filter_dict, reranking_enabled, hybrid_search_enabled, hybrid_search_weight, initial_top_k, embedded, semantic_results, keyword_results, fusion_ran, combined_results, combined, candidates, rerank, reranker_calls, stages) ==
    [op |-> "retrieve", batch |-> <<>>, query |-> query, top_k |-> top_k,
     similarity_threshold |-> similarity_threshold, filter_dict |-> filter_dict,
     reranking_enabled |-> reranking_enabled,
     hybrid_search_enabled |-> hybrid_search_enabled,
     hybrid_search_weight |-> hybrid_search_weight,
     initial_top_k |-> initial_top_k,
     embedded |-> embedded.kind, query_embedding |-> embedded.vector,
     semantic_results |-> semantic_results, keyword_results |-> keyword_results,
     fusion_ran |-> fusion_ran, combined_results |-> combined_results,
     combined |-> combined,
     candidates |-> candidates, rerank |-> rerank,
     reranker_calls |-> reranker_calls, stages |-> stages]

RetrieveOutcomes(query, top_k_arg, similarity_threshold_arg, filter_dict, reranking_enabled_arg, hybrid_search_enabled_arg, hybrid_search_weight_arg) ==
    LET top_k == Resolve(top_k_arg, retriever.top_k)
        similarity_threshold ==
            Resolve(similarity_threshold_arg, retriever.similarity_threshold)
        reranking_enabled ==
            Resolve(reranking_enabled_arg, retriever.reranking_enabled)
        hybrid_search_enabled ==
            Resolve(hybrid_search_enabled_arg, retriever.hybrid_search_enabled)
        hybrid_search_weight ==
            Resolve(hybrid_search_weight_arg, retriever.hybrid_search_weight)
        initial_top_k == IF reranking_enabled THEN top_k * 3 ELSE top_k
        Trace(embedded, semantic_results, keyword_results, fusion_ran,
              combined_results, combined, candidates, rerank, reranker_calls,
              stages) ==
            RetrieveCall(query, top_k, similarity_threshold, filter_dict,
                         reranking_enabled, hybrid_search_enabled,
                         hybrid_search_weight, initial_top_k, embedded,
                         semantic_results, keyword_results, fusion_ran,
                         combined_results, combined, candidates, rerank,
                         reranker_calls, stages)
        AfterSearch(embedded, semantic_results) ==
            LET hybrid == /\ hybrid_search_enabled
                          /\ retriever.keyword_search_available
                          /\ semantic_results # <<>>
                keyword_results ==
                    IF hybrid
                    THEN PerformKeywordSearch(query, documents, initial_top_k)
                    ELSE <<>>
                fusion_ran == hybrid /\ keyword_results # <<>>
                handed_on ==
                    IF fusion_ran
                    THEN {Combined(combined_results,
                                   SliceTo(combined_results, initial_top_k)) :
                          combined_results \in
                              Combine(semantic_results, keyword_results,
                                      hybrid_search_weight)}
                    ELSE {Combined(<<>>, semantic_results)}
            IN  {LET candidates ==
                         ApplyThreshold(hybrid_step.results, similarity_threshold)
                     final == RerankOrCut(query, candidates, top_k, reranking_enabled)
                     reranker_calls ==
                         RerankOrCutCalls(query, candidates, reranking_enabled)
                     stages ==
                         <<"embed_text", "similarity_search">>
                         \o (IF fusion_ran THEN <<"fusion">> ELSE <<>>)
                         \o (IF RatLess(Rational(0, 1), similarity_threshold)
                             THEN <<"threshold">> ELSE <<>>)
                         \o [i \in 1..Len(reranker_calls) |-> "reranker"]
                         \o <<"return">>
                 IN  <<Trace(embedded, semantic_results, keyword_results,
                             fusion_ran, hybrid_step.combined_results,
                             hybrid_step.results, candidates, final.rerank,
                             reranker_calls, stages),
                       Returned(IF final.results = <<>> THEN "warning" ELSE "info",
                                final.results, <<>>)>> :
                 hybrid_step \in handed_on}
        AfterEmbed(embedded) ==
            IF embedded.kind = "raise"
            THEN {<<Trace(embedded, <<>>, <<>>, FALSE, <<>>, <<>>, <<>>, "skipped",
                          <<>>, <<"embed_text">>),
                    Raised("RuntimeError")>>}
            ELSE UNION {IF searched.kind = "raise"
                        THEN {<<Trace(embedded, <<>>, <<>>, FALSE, <<>>, <<>>,
                                      <<>>, "skipped", <<>>,
                                      <<"embed_text", "similarity_search">>),
                                searched>>}
                        ELSE AfterSearch(embedded, searched.results) :
                        searched \in SearchOutcomes(embedded.vector, initial_top_k,
                                                    filter_dict)}
    IN  UNION {AfterEmbed(embedded) : embedded \in EmbedText(query)}

RetrieveOnStoredDocuments(query, top_k, similarity_threshold, filter_dict, reranking_enabled, hybrid_search_enabled, hybrid_search_weight) ==
    /\ UNCHANGED <<embedding_matrix, distance_metric, snapshot, around>>
    /\ \E outcome \in RetrieveOutcomes(query, top_k, similarity_threshold,
                                        filter_dict, reranking_enabled,
                                        hybrid_search_enabled, hybrid_search_weight) :
          /\ call' = outcome[1]
          /\ ret' = outcome[2]
          /\ documents' =
                AsSeq([i \in 1..Len(documents) |->
                          IF \E j \in 1..Len(outcome[2].results) :
                                outcome[2].results[j].text = documents[i].text
                          THEN LET j == CHOOSE j \in 1..Len(outcome[2].results) :
                                           outcome[2].results[j].text = documents[i].text
                               IN  ResultDoc(documents[i],
                                             outcome[2].results[j].similarity_score)
                          ELSE documents[i]],
                      Len(documents))

(* Retriever.retrieve.  Every score it writes goes to a copy of a stored    *)
(* document (vector_store.py line 170, retriever.py lines 193 and 334; the  *)
(* loop of line 242 writes on those copies), and the defaults are read into *)
(* locals (lines 278-282), so the store and the retriever stay as they are. *)
Retrieve(query, top_k, similarity_threshold, filter_dict, reranking_enabled, hybrid_search_enabled, hybrid_search_weight) ==
    /\ UNCHANGED <<documents, embedding_matrix, distance_metric, snapshot, around>>
    /\ \E outcome \in RetrieveOutcomes(query, top_k, similarity_threshold,
                                        filter_dict, reranking_enabled,
                                        hybrid_search_enabled, hybrid_search_weight) :
          /\ call' = outcome[1]
          /\ ret' = outcome[2]

Next ==
    \/ \E batch \in Batches : AddDocuments(batch)
    \/ Save
    \/ Load

Spec == Init /\ [][Next]_vars

(***************************************************************************)
(* The store under searches and appends of embedded documents.            *)
(***************************************************************************)
EmbeddedBatches == SeqsUpTo({doc \in DocUniverse : HasEmbedding(doc)}, MaxBatch)

(* each document is handed to the store at most once *)
Fresh(batch) ==
    /\ \A i, j \in 1..Len(batch) : i # j => batch[i] # batch[j]
    /\ \A i \in 1..Len(batch), j \in 1..Len(documents) : batch[i] # documents[j]

NextSearch ==
    \/ \E batch \in EmbeddedBatches : Fresh(batch) /\ AddDocuments(batch)
    \/ \E q \in Queries, k \in 0..MaxK, f \in Filters : SimilaritySearch(q, k, f)

InitSearch == Init /\ snapshot = NoPickle("missing")

SpecSearch == InitSearch /\ [][NextSearch]_vars

(***************************************************************************)
(* VectorStore.save step by step, as a reader of the path or an            *)
(* interruption sees it: open(output_path, 'wb') creates or truncates the  *)
(* file at the path itself, pickle.dump then writes into it.               *)
(***************************************************************************)
SaveOpen ==
    /\ pc = "idle"
    /\ call' = Call("save", <<>>, <<>>, 0, NoFilter)
    /\ UNCHANGED <<documents, embedding_matrix, distance_metric, retriever, embedder>>
    /\ IF snapshot.state = "unreadable"
       THEN /\ ret' = Raised("PermissionError")
            /\ UNCHANGED <<snapshot, pc>>
       ELSE /\ snapshot' = NoPickle("partial")
            /\ pc' = "save_dump"
            /\ UNCHANGED ret

SaveDump ==
    /\ pc = "save_dump"
    /\ snapshot' = Pickle(documents, distance_metric)
    /\ pc' = "idle"
    /\ call' = Call("save", <<>>, <<>>, 0, NoFilter)
    /\ ret' = Returned("info", <<>>, <<>>)
    /\ UNCHANGED <<documents, embedding_matrix, distance_metric, retriever, embedder>>

(* the write fails or the process is stopped before the dump is complete *)
SaveInterrupted ==
    /\ pc = "save_dump"
    /\ pc' = "idle"
    /\ call' = Call("save", <<>>, <<>>, 0, NoFilter)
    /\ ret' = Raised("OSError")
    /\ UNCHANGED <<documents, embedding_matrix, distance_metric, snapshot,
                   retriever, embedder>>

NextSnapshot ==
    \/ \E batch \in Batches : pc = "idle" /\ AddDocuments(batch)
    \/ SaveOpen
    \/ SaveDump
    \/ SaveInterrupted
    \/ Load

SpecSnapshot == Init /\ [][NextSnapshot]_vars

(***************************************************************************)
(* The store under searches by query vectors of several lengths.           *)
(***************************************************************************)
DimQueries == {<<1>>, <<1, 0>>, <<1, 0, 0>>}

NextDim ==
    \/ \E batch \in EmbeddedBatches : Fresh(batch) /\ AddDocuments(batch)
    \/ \E q \in DimQueries, k \in {1, MaxK} : SimilaritySearch(q, k, NoFilter)

SpecDim == InitSearch /\ [][NextDim]_vars

(***************************************************************************)
(* VectorStore.add_documents step by step, as a search of another thread   *)
(* sees it: the store has no lock, so between the extend of line 80 and    *)
(* the _update_embedding_matrix of line 83 a search may run on the         *)
(* extended list and the matrix of before.                                 *)
(***************************************************************************)
AddExtend(batch) ==
    /\ pc = "idle"
    /\ batch # <<>>
    /\ \A i \in 1..Len(batch) : HasEmbedding(batch[i])
    /\ Len(documents) + Len(batch) <= MaxDocs
    /\ documents' = Extend(documents, batch)
    /\ pc' = "update_embedding_matrix"
    /\ call' = Call("add_documents", batch, <<>>, 0, NoFilter)
    /\ UNCHANGED <<embedding_matrix, distance_metric, snapshot, ret, retriever, embedder>>

AddRebuild ==
    /\ pc = "update_embedding_matrix"
    /\ pc' = "idle"
    /\ call' = Call("add_documents", <<>>, <<>>, 0, NoFilter)
    /\ UNCHANGED <<documents, distance_metric, snapshot, retriever, embedder>>
    /\ IF VStackOk(Embeddings(documents))
       THEN /\ embedding_matrix' = Embeddings(documents)
            /\ ret' = Returned("info", <<>>, <<>>)
       ELSE /\ embedding_matrix' = embedding_matrix
            /\ ret' = Raised("ValueError")

NextThreads ==
    \/ \E batch \in EmbeddedBatches : Fresh(batch) /\ AddExtend(batch)
    \/ AddRebuild
    \/ \E q \in Queries, k \in {1, MaxK}, f \in Filters : SimilaritySearch(q, k, f)

SpecThreads == InitSearch /\ [][NextThreads]_vars

(***************************************************************************)
(* Retriever._perform_keyword_search called on the documents of the store, *)
(* over texts with a repeated word, with stop words and punctuation, and   *)
(* with nothing left after the filtering.                                  *)
(***************************************************************************)
LexicalCall(query, top_k) ==
    [op |-> "_perform_keyword_search", batch |-> <<>>, query |-> query,
     query_embedding |-> <<>>, top_k |-> top_k, filter_dict |-> NoFilter]

KeywordSearch(query, top_k) ==
    /\ call' = LexicalCall(query, top_k)
    /\ ret' = Returned("info", PerformKeywordSearch(query, documents, top_k), <<>>)
    /\ UNCHANGED <<documents, embedding_matrix, distance_metric, snapshot, around>>

DocStop == [text |-> "the", embedding |-> <<0, 1>>,
            metadata |-> [source |-> "s", chunk_id |-> 0]]

DocRep == [text |-> "alpha alpha two", embedding |-> <<1, 1>>,
           metadata |-> [source |-> "r", chunk_id |-> 0]]

LexicalCorpus == {DocA, DocD, DocStop, DocRep,
                  [text |-> "The beta, the alpha.", embedding |-> <<0 - 1, 0>>,
                   metadata |-> [source |-> "c", chunk_id |-> 0]]}

LexicalQueries == {"alpha", "alpha two", "alpha alpha two", "the", ""}

NextLexical ==
    \/ \E doc \in LexicalCorpus : Fresh(<<doc>>) /\ AddDocuments(<<doc>>)
    \/ \E query \in LexicalQueries, top_k \in {1, MaxDocs} : KeywordSearch(query, top_k)

InitLexical == InitSearch /\ distance_metric = "cosine"

SpecLexical == InitLexical /\ [][NextLexical]_vars

(***************************************************************************)
(* The cosine store under searches by queries of every sign, with a chunk  *)
(* whose embedding is the zero vector and the zero query among them.       *)
(***************************************************************************)
DocZero == [text |-> "zeta", embedding |-> <<0, 0>>,
            metadata |-> [source |-> "z", chunk_id |-> 0]]

CosineCorpus == {DocA, DocB, DocC, DocZero}

CosineQueries == {<<0, 0>>, <<1, 0>>, <<0 - 1, 1>>, <<2, 2>>}

NextCosine ==
    \/ \E doc \in CosineCorpus : Fresh(<<doc>>) /\ AddDocuments(<<doc>>)
    \/ \E q \in CosineQueries, k \in {1, MaxK} : SimilaritySearch(q, k, NoFilter)

InitCosine == InitSearch /\ distance_metric = "cosine"

SpecCosine == InitCosine /\ [][NextCosine]_vars

(***************************************************************************)
(* The retriever over a store that is filled chunk by chunk in the order   *)
(* of the corpus.  The corpus lies on one axis, so that every score of it  *)
(* has a rational value under each of the three metrics.  The retrievers   *)
(* run over the two metrics whose scores tell the chunks apart: under      *)
(* cosine every chunk of one axis scores 1 or -1.                          *)
(***************************************************************************)
DocNeg == [text |-> "The beta, the alpha.", embedding |-> <<0 - 1, 0>>,
           metadata |-> [source |-> "c", chunk_id |-> 0]]

DocTwo == [text |-> "two", embedding |-> <<3, 0>>,
           metadata |-> [source |-> "c", chunk_id |-> 1]]

RetrievalCorpus == <<DocA, DocD, DocNeg, DocTwo>>

(* the chunks that come after every stored one *)
NextChunks ==
    {i \in 1..Len(RetrievalCorpus) :
        \A j \in 1..Len(RetrievalCorpus) :
            RetrievalCorpus[j] \in Range(documents) => j < i}

RetrievalMetrics == {"euclidean", "dot"}

Thresholds == {Rational(0 - 1, 2), Rational(0, 1), Rational(1, 2)}

Weights == {Rational(0, 1), Rational(1, 2), Rational(1, 1)}

RetrievalQueries == {"alpha", "two"}

(* result counts below the size of the store, and 0 *)
TopKs == {0, 1, 2}

(* retrievers built with every library state; the weight is varied where   *)
(* the keyword search is there to use it                                   *)
Retrievers ==
    {Retriever(k, t, TRUE, rerank_lib, TRUE, "loaded", w) :
        k \in TopKs, t \in Thresholds,
        rerank_lib \in {"loaded", "broken", "missing"}, w \in Weights}
    \cup
    {Retriever(k, t, TRUE, rerank_lib, TRUE, nltk_lib, Rational(7, 10)) :
        k \in TopKs, t \in Thresholds,
        rerank_lib \in {"loaded", "broken", "missing"},
        nltk_lib \in {"broken", "missing"}}

InitRetrieve ==
    /\ documents = <<>>
    /\ embedding_matrix = NoneMatrix
    /\ distance_metric \in RetrievalMetrics
    /\ snapshot = NoPickle("missing")
    /\ call = Call("__init__", <<>>, <<>>, 0, NoFilter)
    /\ ret = Returned("info", <<>>, <<>>)
    /\ retriever \in Retrievers
    /\ embedder = "encodes"
    /\ pc = "idle"

NextRetrieve ==
    \/ \E i \in NextChunks : AddDocuments(<<RetrievalCorpus[i]>>)
    \/ \E query \in RetrievalQueries,
          reranking_enabled \in {None, Given(~retriever.reranking_enabled)} :
          Retrieve(query, None, None, NoFilter, reranking_enabled, None, None)

SpecRetrieve == InitRetrieve /\ [][NextRetrieve]_vars

(***************************************************************************)
(* The retriever called with a metadata filter.                            *)
(***************************************************************************)
InitFilter ==
    /\ documents = <<>>
    /\ embedding_matrix = NoneMatrix
    /\ distance_metric \in RetrievalMetrics
    /\ snapshot = NoPickle("missing")
    /\ call = Call("__init__", <<>>, <<>>, 0, NoFilter)
    /\ ret = Returned("info", <<>>, <<>>)
    /\ retriever \in {Retriever(k, Rational(0, 1), TRUE, "loaded", TRUE, "loaded", Rational(7, 10)) : k \in TopKs}
    /\ embedder = "encodes"
    /\ pc = "idle"

NextFilter ==
    \/ \E i \in NextChunks : AddDocuments(<<RetrievalCorpus[i]>>)
    \/ \E query \in RetrievalQueries, filter_dict \in Filters : Retrieve(query, None, None, filter_dict, None, None, None)

SpecFilter == InitFilter /\ [][NextFilter]_vars

(***************************************************************************)
(* The retriever with nltk in each of its states, called with the hybrid   *)
(* search left to the default, switched off and switched on.               *)
(***************************************************************************)
InitHybrid ==
    /\ documents = <<>>
    /\ embedding_matrix = NoneMatrix
    /\ distance_metric \in RetrievalMetrics
    /\ snapshot = NoPickle("missing")
    /\ call = Call("__init__", <<>>, <<>>, 0, NoFilter)
    /\ ret = Returned("info", <<>>, <<>>)
    /\ retriever \in {Retriever(k, Rational(0, 1), TRUE, "loaded", TRUE, nltk_lib, Rational(7, 10)) : k \in TopKs, nltk_lib \in {"loaded", "broken", "missing"}}
    /\ embedder = "encodes"
    /\ pc = "idle"

NextHybrid ==
    \/ \E i \in NextChunks : AddDocuments(<<RetrievalCorpus[i]>>)
    \/ \E query \in RetrievalQueries, hybrid_search_enabled \in {None, Given(FALSE), Given(TRUE)} : Retrieve(query, None, None, NoFilter, None, hybrid_search_enabled, None)

SpecHybrid == InitHybrid /\ [][NextHybrid]_vars

(***************************************************************************)
(* The store searched directly and through the retriever, the arguments of *)
(* retrieve left to the defaults or given other values than the defaults,  *)
(* the reranking and the hybrid search each left on or switched off.       *)
(***************************************************************************)
InitOverride ==
    /\ documents = <<>>
    /\ embedding_matrix = NoneMatrix
    /\ distance_metric \in RetrievalMetrics
    /\ snapshot = NoPickle("missing")
    /\ call = Call("__init__", <<>>, <<>>, 0, NoFilter)
    /\ ret = Returned("info", <<>>, <<>>)
    /\ retriever \in {Retriever(1, Rational(0, 1), TRUE, rerank_lib, TRUE, "loaded", Rational(1, 2)) : rerank_lib \in {"loaded", "broken"}}
    /\ embedder = "encodes"
    /\ pc = "idle"

NextOverride ==
    \/ \E i \in NextChunks : AddDocuments(<<RetrievalCorpus[i]>>)
    \/ \E q \in Queries, k \in {1, MaxK}, f \in {NoFilter, [text |-> "alpha"]} : SimilaritySearch(q, k, f)
    \/ \E query \in RetrievalQueries, given \in BOOLEAN, filter_dict \in {NoFilter, [text |-> "alpha"]}, reranking_enabled \in {None, Given(FALSE)}, hybrid_search_enabled \in {None, Given(FALSE)} : Retrieve(query, IF given THEN Given(2) ELSE None, IF given THEN Given(Rational(1, 2)) ELSE None, filter_dict, reranking_enabled, hybrid_search_enabled, IF given THEN Given(Rational(0, 1)) ELSE None)

SpecOverride == InitOverride /\ [][NextOverride]_vars

(***************************************************************************)
(* The hybrid retriever over documents whose metadata has neither 'source' *)
(* nor 'chunk_id', so that their doc_id is the same '', beside one that    *)
(* has both.                                                               *)
(***************************************************************************)
DocPage1 == [text |-> "alpha", embedding |-> <<1, 0>>, metadata |-> [page |-> 1]]

DocPage2 == [text |-> "alpha two", embedding |-> <<2, 0>>, metadata |-> [page |-> 2]]

KeylessCorpus == <<DocPage1, DocPage2, DocTwo>>

InitKeyless ==
    /\ documents = <<>>
    /\ embedding_matrix = NoneMatrix
    /\ distance_metric \in RetrievalMetrics
    /\ snapshot = NoPickle("missing")
    /\ call = Call("__init__", <<>>, <<>>, 0, NoFilter)
    /\ ret = Returned("info", <<>>, <<>>)
    /\ retriever \in {Retriever(k, Rational(0, 1), TRUE, rerank_lib, TRUE, "loaded", Rational(1, 2)) : k \in 1..MaxK, rerank_lib \in {"loaded", "missing"}}
    /\ embedder = "encodes"
    /\ pc = "idle"

NextKeyless ==
    \/ \E i \in 1..Len(KeylessCorpus) : KeylessCorpus[i] \notin Range(documents) /\ AddDocuments(<<KeylessCorpus[i]>>)
    \/ \E query \in RetrievalQueries, hybrid_search_enabled \in {None, Given(FALSE)} : Retrieve(query, None, None, NoFilter, None, hybrid_search_enabled, None)

SpecKeyless == InitKeyless /\ [][NextKeyless]_vars

(***************************************************************************)
(* The default retriever with an embedder in each of its states.           *)
(***************************************************************************)
Embedders == {"encodes", "placeholder", "raises"}

InitEmbed ==
    /\ documents = <<>>
    /\ embedding_matrix = NoneMatrix
    /\ distance_metric \in RetrievalMetrics \cup {"cosine"}
    /\ snapshot = NoPickle("missing")
    /\ call = Call("__init__", <<>>, <<>>, 0, NoFilter)
    /\ ret = Returned("info", <<>>, <<>>)
    /\ retriever = DefaultRetriever
    /\ embedder \in Embedders
    /\ pc = "idle"

SpecEmbed == InitEmbed /\ [][NextRetrieve]_vars

(***************************************************************************)
(* Vocabulary of the properties.                                           *)
(***************************************************************************)
IsPrefix(a, b) == Len(a) <= Len(b) /\ SubSeq(b, 1, Len(a)) = a

AllEmbedded(batch) == \A i \in 1..Len(batch) : HasEmbedding(batch[i])

EstablishedDim(docs, batch) ==
    IF docs # <<>> THEN Len(docs[1].embedding) ELSE Len(batch[1].embedding)

DimensionMismatch(docs, batch) ==
    /\ batch # <<>>
    /\ AllEmbedded(batch)
    /\ \E i \in 1..Len(batch) : Len(batch[i].embedding) # EstablishedDim(docs, batch)

RowPerDocument ==
    IF documents = <<>>
    THEN embedding_matrix = NoneMatrix
    ELSE /\ Len(embedding_matrix) = Len(documents)
         /\ \A i \in 1..Len(documents) : embedding_matrix[i] = documents[i].embedding

(***************************************************************************)
(* C1.  In every reachable state the matrix has exactly one row per stored *)
(* document and row i is the embedding of document i.  Stated as the       *)
(* claim; it fails after an append that np.vstack rejects.                 *)
(***************************************************************************)
C1_MatrixRowPerDocument == RowPerDocument

(***************************************************************************)
(* C2.  An append whose batch has an embedding of another length than the  *)
(* store's dimension fails and leaves the document list and the matrix as  *)
(* they were.  Stated as the claim; the list is extended before the error. *)
(***************************************************************************)
C2_MismatchedAppendAllOrNothing ==
    [][(call'.op = "add_documents" /\ DimensionMismatch(documents, call'.batch))
        => /\ ret'.kind = "raise"
           /\ documents' = documents
           /\ embedding_matrix' = embedding_matrix]_vars

(***************************************************************************)
(* C3.  An append whose batch has an entry without embedding hands its     *)
(* caller a failure and leaves the store unchanged.  Stated as the claim;  *)
(* the code logs and returns None, as it does on success.                  *)
(***************************************************************************)
C3_MissingEmbeddingFails ==
    [][(call'.op = "add_documents" /\ ~AllEmbedded(call'.batch))
        => /\ ret'.kind = "raise"
           /\ documents' = documents
           /\ embedding_matrix' = embedding_matrix]_vars

C5_RoundTrip ==
    (call.op = "load" /\ snapshot.state = "pickle")
        => /\ ret.kind = "return"
           /\ documents = snapshot.documents
           /\ distance_metric = snapshot.distance_metric
           /\ RowPerDocument

(***************************************************************************)
(* C6.  A load of a missing, unreadable or corrupt snapshot ends in an     *)
(* error its caller sees, never in a store.  Stated as the claim; for a    *)
(* missing file the code returns an empty cosine store.                    *)
(***************************************************************************)
C6_LoadFailureVisible ==
    (call.op = "load" /\ snapshot.state \in {"missing", "unreadable", "corrupt"})
        => ret.kind = "raise"

(***************************************************************************)
(* Vocabulary of the search properties: the last call was a search, what   *)
(* it was asked and what it returned.                                      *)
(***************************************************************************)
Supported == distance_metric \in {"cosine", "euclidean", "dot"}

Searched == call.op = "similarity_search"

(* a search of a store with one row per document, by a query of its dimension *)
CleanSearch ==
    /\ Searched
    /\ Supported
    /\ RowPerDocument
    /\ documents # <<>> => Len(call.query_embedding) = Len(embedding_matrix[1])

(* the score of stored document i for the query of the last call *)
ScoreOfDoc(i) ==
    RowScore(embedding_matrix[i], call.query_embedding, distance_metric)

(* the scored documents the filter of the last call lets through *)
Candidates ==
    {i \in 1..Len(embedding_matrix) : Matches(documents[i], call.filter_dict)}

MetadataMatches(doc, filter_dict) ==
    \A key \in DOMAIN filter_dict :
        key \in DOMAIN doc.metadata /\ doc.metadata[key] = filter_dict[key]

(***************************************************************************)
(* C7.  A search without filter returns exactly min(k, size) results, for  *)
(* every k >= 0.  Stated as the claim; for k = 0 the slice [-0:] keeps     *)
(* every index and the search returns the whole store.                     *)
(***************************************************************************)
C7_ExactlyMinKSize ==
    (CleanSearch /\ call.filter_dict = NoFilter)
        => /\ ret.kind = "return"
           /\ Len(ret.results) = MinOf(call.top_k, Len(documents))

(***************************************************************************)
(* C8.  Under each of the three metrics the returned list is in descending *)
(* order of score and is a top-k: every result is a candidate with its own *)
(* score, and no candidate left out scores above a returned one.           *)
(***************************************************************************)
C8_SortedTopK ==
    (Searched /\ Supported /\ ret.kind = "return")
        => LET res == ret.results
               idx == ret.indices
           IN  /\ \A i, j \in 1..Len(res) :
                     i < j => ~ScoreLess(res[i].similarity_score,
                                         res[j].similarity_score)
               /\ \A i \in 1..Len(res) :
                     /\ idx[i] \in Candidates
                     /\ res[i].similarity_score = ScoreOfDoc(idx[i])
               /\ \A c \in Candidates \ Range(idx) : \A i \in 1..Len(res) :
                     ~ScoreLess(res[i].similarity_score, ScoreOfDoc(c))

C8_Witness ==
    /\ Searched
    /\ distance_metric = "cosine"
    /\ documents = <<DocA, DocB, DocC>>
    /\ call.query_embedding = <<1, 0>>
    /\ call.top_k = 2
    /\ call.filter_dict = NoFilter
    /\ ret.kind = "return"
    /\ ret.indices = <<1, 3>>
    /\ ret.results = <<ResultDoc(DocA, Score(1, 1)), ResultDoc(DocC, Score(1, 2))>>

(***************************************************************************)
(* C9.  Documents of equal score are ordered, and at the boundary of the   *)
(* top k selected, by ascending insertion index.  Stated as the claim, for *)
(* k >= 1; the reversed argsort does not give that order.                  *)
(***************************************************************************)
C9_TiesByInsertionIndex ==
    (Searched /\ Supported /\ call.top_k >= 1 /\ ret.kind = "return")
        => LET res == ret.results
               idx == ret.indices
           IN  /\ \A i, j \in 1..Len(res) :
                     (i < j /\ ScoreEq(res[i].similarity_score,
                                       res[j].similarity_score))
                        => idx[i] < idx[j]
               /\ \A c \in Candidates \ Range(idx) : \A i \in 1..Len(res) :
                     ScoreEq(res[i].similarity_score, ScoreOfDoc(c)) => idx[i] < c

(***************************************************************************)
(* C10.  A search with a filter returns exactly min(k, m) results, m the   *)
(* number of stored documents whose metadata has every filter key with an  *)
(* equal value; every result satisfies the filter and carries the content  *)
(* and the score of the stored document at its index.  Stated as the       *)
(* claim, for k >= 1; the code looks the keys up in the document dict, not *)
(* in its metadata, and raises when nothing matches.                       *)
(***************************************************************************)
C10_FilterBeforeTopK ==
    (CleanSearch /\ call.top_k >= 1 /\ call.filter_dict # NoFilter)
        => LET res == ret.results
               idx == ret.indices
               m == Cardinality({i \in 1..Len(documents) :
                        MetadataMatches(documents[i], call.filter_dict)})
           IN  /\ ret.kind = "return"
               /\ Len(res) = MinOf(call.top_k, m)
               /\ \A i \in 1..Len(res) :
                     /\ MetadataMatches(documents[idx[i]], call.filter_dict)
                     /\ res[i] = ResultDoc(documents[idx[i]], ScoreOfDoc(idx[i]))

(***************************************************************************)
(* C11.  A search whose candidate set is empty, the store being empty or   *)
(* the filter matching no stored document (neither by its metadata nor by  *)
(* its own keys), returns an empty list and raises nothing.  Stated as the *)
(* claim; with a filter that matches nothing the code indexes the scores   *)
(* by an empty float array and raises IndexError.                          *)
(***************************************************************************)
NothingMatches ==
    /\ call.filter_dict # NoFilter
    /\ \A i \in 1..Len(documents) :
          /\ ~Matches(documents[i], call.filter_dict)
          /\ ~MetadataMatches(documents[i], call.filter_dict)

C11_EmptyCandidatesReturnEmpty ==
    (CleanSearch /\ (documents = <<>> \/ NothingMatches))
        => /\ ret.kind = "return"
           /\ ret.results = <<>>

(***************************************************************************)
(* Vocabulary of the retrieval properties.                                 *)
(***************************************************************************)
FusionRan == call.op = "retrieve" /\ call.fusion_ran

RetrieveReturned == call.op = "retrieve" /\ ret.kind = "return"

IdsOf(results) == {DocId(results[i]) : i \in 1..Len(results)}

(* the scores a result list has for an identity key, 0 when it has none *)
ScoresOfKey(results, field, doc_id) ==
    IF WithId(results, doc_id) = {} THEN {Score(0, 1)}
    ELSE {results[i][field] : i \in WithId(results, doc_id)}

(* weight * semantic + (1 - weight) * lexical *)
WeightedSum(weight, semantic, lexical) ==
    RatAdd(RatMul(weight, ToRational(semantic)),
           RatMul(Rational(weight.d - weight.n, weight.d), ToRational(lexical)))

Descending(results, field) ==
    \A i \in 1..(Len(results) - 1) :
        ~ScoreLess(results[i][field], results[i + 1][field])

ScoreFields == {"similarity_score", "semantic_score", "keyword_score", "rerank_score"}

(* a result without the scores the stages put on it *)
Bare(doc) == [f \in DOMAIN doc \ ScoreFields |-> doc[f]]

BareSeq(results) == [i \in 1..Len(results) |-> Bare(results[i])]

C13_FusionBoundary ==
    FusionRan =>
        /\ call.hybrid_search_weight = Rational(1, 1)
              => BareSeq(call.combined_results) = BareSeq(call.semantic_results)
        /\ call.hybrid_search_weight = Rational(0, 1)
              => BareSeq(call.combined_results) = BareSeq(call.keyword_results)

(***************************************************************************)
(* C14.  Whatever the threshold of a retrieve other than 0, a negative one *)
(* included, no result it returns has an active score, the similarity      *)
(* score that the fusion replaced when it ran, below the threshold.        *)
(* Stated as the claim; the code filters only when the threshold is above  *)
(* 0, so under a negative threshold results below it come back.            *)
(***************************************************************************)
C14_NoResultBelowThreshold ==
    (RetrieveReturned /\ call.similarity_threshold # Rational(0, 1))
        => \A i \in 1..Len(ret.results) :
              ~ScoreLess(ret.results[i].similarity_score,
                         ToScore(call.similarity_threshold))

(***************************************************************************)
(* C15.  After a retrieve that returned, the same retrieve of the same     *)
(* store with a threshold that is not lower, every other argument as it    *)
(* was, returns too and returns no more results than it did, whichever of  *)
(* its outcomes it takes, with the fusion and the reranking or without.    *)
(***************************************************************************)
C15_ThresholdMonotone ==
    RetrieveReturned =>
        \A t \in Thresholds :
            ~RatLess(t, call.similarity_threshold) =>
                \A outcome \in
                    RetrieveOutcomes(call.query, Given(call.top_k), Given(t),
                                     call.filter_dict,
                                     Given(call.reranking_enabled),
                                     Given(call.hybrid_search_enabled),
                                     Given(call.hybrid_search_weight)) :
                    /\ outcome[2].kind = "return"
                    /\ Len(outcome[2].results) <= Len(ret.results)

(* a retrieve with fusion and reranking whose threshold dropped candidates *)
(* and left some *)
C15_Witness ==
    /\ RetrieveReturned
    /\ call.fusion_ran
    /\ call.rerank = "ran"
    /\ RatLess(Rational(0, 1), call.similarity_threshold)
    /\ Len(call.candidates) < Len(call.combined)
    /\ ret.results # <<>>

(***************************************************************************)
(* C16.  A retrieve of a retriever whose reranker is not there, or raises  *)
(* when it is called, returns, and what it returns is the candidates that  *)
(* passed the threshold, cut to top_k, in the order and with the fields    *)
(* they had before the reranking step.                                     *)
(***************************************************************************)
C16_RerankerFailureDegrades ==
    (call.op = "retrieve" /\ retriever.reranker \in {"none", "broken"})
        => /\ ret.kind = "return"
           /\ ret.results = SliceTo(call.candidates, call.top_k)

(* a reranker that raised on more candidates than top_k *)
C16_Witness ==
    /\ call.op = "retrieve"
    /\ retriever.reranker = "broken"
    /\ call.rerank = "failed"
    /\ call.top_k >= 1
    /\ Len(call.candidates) > call.top_k
    /\ Len(ret.results) = call.top_k

(***************************************************************************)
(* C17.  A list that retrieve returns has at most top_k entries and is in  *)
(* descending order of the score active when it is returned: the rerank    *)
(* score when the reranker ran, else the similarity score, which is the    *)
(* fused score when the fusion ran and the semantic score when it did not. *)
(* Each entry still has the scores of the stages before: its similarity    *)
(* score, and its semantic and keyword scores when the fusion ran.         *)
(***************************************************************************)
C17_CappedOrderedScoresKept ==
    RetrieveReturned =>
        /\ Len(ret.results) <= call.top_k
        /\ Descending(ret.results,
                      IF call.rerank = "ran" THEN "rerank_score"
                      ELSE "similarity_score")
        /\ \A i \in 1..Len(ret.results) :
              /\ "similarity_score" \in DOMAIN ret.results[i]
              /\ call.fusion_ran =>
                    {"semantic_score", "keyword_score"} \subseteq DOMAIN ret.results[i]
              /\ call.rerank = "ran" => "rerank_score" \in DOMAIN ret.results[i]

(* a reranking after a fusion that cut the candidates to top_k and put a   *)
(* lower fused score first *)
C17_Witness ==
    /\ RetrieveReturned
    /\ call.fusion_ran
    /\ call.rerank = "ran"
    /\ Len(call.candidates) > call.top_k
    /\ Len(ret.results) = call.top_k
    /\ call.top_k >= 2
    /\ ScoreLess(ret.results[1].similarity_score, ret.results[2].similarity_score)

(***************************************************************************)
(* C18.  A retrieve whose embedder did not embed the query ends with an    *)
(* error for the caller: it does not search with a vector put in the place *)
(* of the embedding and returns no list.  Stated as the claim; embed_text  *)
(* answers a missing model or a failing provider with a random vector, and *)
(* retrieve searches with it.                                              *)
(***************************************************************************)
C18_EmbedderFailureIsFatal ==
    (call.op = "retrieve" /\ call.embedded # "vector")
        => /\ ret.kind = "raise"
           /\ call.semantic_results = <<>>

(***************************************************************************)
(* C19.  A search of a store with one row per document by a query vector   *)
(* of another length than the rows raises, under each of the three         *)
(* metrics.  Stated as the claim; under the euclidean metric a query of    *)
(* length 1 is broadcast over the rows and scored results come back.       *)
(***************************************************************************)
C19_QueryDimensionMismatchFails ==
    (/\ Searched
     /\ Supported
     /\ documents # <<>>
     /\ RowPerDocument
     /\ Len(call.query_embedding) # Len(embedding_matrix[1]))
        => ret.kind = "raise"

(***************************************************************************)
(* C20.  At every moment, a save in progress or interrupted included, the  *)
(* path holds a complete snapshot or what it held before, never the        *)
(* beginning of one, and no load reads a partial snapshot.  Stated as the  *)
(* claim; the code opens the target path itself for writing.               *)
(***************************************************************************)
C20_SaveAtomic ==
    /\ snapshot.state # "partial"
    /\ call.op = "load" => ret.exc # "EOFError"

(***************************************************************************)
(* C21.  An append has the store to itself: no search runs between its     *)
(* extension of the document list and its rebuild of the matrix, so a      *)
(* search of a store whose embeddings stack, filtered or not, reads a      *)
(* document list and a matrix of one length.  Stated as the claim; the     *)
(* store has no lock and a search of another thread runs in between.       *)
(***************************************************************************)
C21_AppendExclusive ==
    Searched =>
        /\ pc = "idle"
        /\ VStackOk(Embeddings(documents)) => Len(documents) = Len(embedding_matrix)

(***************************************************************************)
(* C22.  A search under the cosine metric raises nothing, and the score s  *)
(* of each result for the query lies in [-1, 1], which for s = num /       *)
(* sqrt(den2) is num^2 <= den2; it is the dot product over the two norms,  *)
(* and it is 0 when the stored vector or the query is the zero vector.     *)
(* The scores are the exact ones, without the rounding of the floats.      *)
(***************************************************************************)
C22_CosineBound ==
    (Searched /\ distance_metric = "cosine") =>
        /\ ret.kind = "return"
        /\ \A i \in 1..Len(ret.results) :
              LET s == ret.results[i].similarity_score
                  d == ret.results[i].embedding
                  q == call.query_embedding
              IN  /\ s.num * s.num <= s.den2
                  /\ Dot(q, d) * Dot(q, d) <= Norm2(q) * Norm2(d)
                  /\ (Norm2(q) = 0 \/ Norm2(d) = 0) => s.num = 0
                  /\ (Norm2(q) # 0 /\ Norm2(d) # 0)
                        => ScoreEq(s, Score(Dot(q, d), Norm2(q) * Norm2(d)))

(* a search that scored a zero stored vector and a vector along the query *)
C22_Witness ==
    /\ Searched
    /\ distance_metric = "cosine"
    /\ Norm2(call.query_embedding) # 0
    /\ \E i, j \in 1..Len(ret.results) :
          /\ Norm2(ret.results[i].embedding) = 0
          /\ ret.results[j].similarity_score.num > 0
          /\ ret.results[j].similarity_score.num * ret.results[j].similarity_score.num
                = ret.results[j].similarity_score.den2

(***************************************************************************)
(* C23.  The keyword score of a document for a query is the number of      *)
(* pairs of a query token and an equal document token, both lists taken    *)
(* after the filtering and with their repetitions, over the number of      *)
(* document tokens times the number of query tokens; it lies in [0, 1],    *)
(* and it is 0 when the document or the query has no token left.           *)
(***************************************************************************)
EqualPairs(query_tokens, doc_tokens) ==
    Cardinality({pair \in (1..Len(query_tokens)) \X (1..Len(doc_tokens)) :
                    query_tokens[pair[1]] = doc_tokens[pair[2]]})

C23_LexicalScore ==
    call.op = "_perform_keyword_search" =>
        \A i \in 1..Len(ret.results) :
            LET query_tokens == KeywordTokens(call.query)
                doc_tokens == KeywordTokens(ret.results[i].text)
                s == ret.results[i].keyword_score
            IN  /\ s.num >= 0
                /\ s.num * s.num <= s.den2
                /\ IF query_tokens = <<>> \/ doc_tokens = <<>>
                   THEN s.num = 0
                   ELSE s.num * s.num * Len(doc_tokens) * Len(query_tokens)
                              * Len(doc_tokens) * Len(query_tokens)
                        = EqualPairs(query_tokens, doc_tokens)
                          * EqualPairs(query_tokens, doc_tokens) * s.den2

(* a search by a query that repeats a word, over a document that repeats   *)
(* it and a document with no token left *)
C23_Witness ==
    /\ call.op = "_perform_keyword_search"
    /\ call.query = "alpha alpha two"
    /\ \E i, j \in 1..Len(ret.results) :
          /\ ret.results[i].text = "alpha alpha two"
          /\ ret.results[i].keyword_score.num > 0
          /\ ret.results[j].text = "the"

(***************************************************************************)
(* C24.  Candidates of equal fused score stand in the fused list in the    *)
(* order in which their documents were put in the store, so the list does  *)
(* not depend on the order in which a set is walked.  Stated as the claim; *)
(* the fused list is built by walking the set all_doc_ids and the stable   *)
(* sort keeps the order of that walk among equal scores.                   *)
(***************************************************************************)
IndexInStore(doc) == CHOOSE i \in 1..Len(documents) : documents[i] = Bare(doc)

C24_FusedTiesByInsertionIndex ==
    FusionRan =>
        \A i, j \in 1..Len(call.combined_results) :
            (/\ i < j
             /\ ScoreEq(call.combined_results[i].similarity_score,
                        call.combined_results[j].similarity_score))
                => IndexInStore(call.combined_results[i])
                       < IndexInStore(call.combined_results[j])

(***************************************************************************)
(* C25.  In a retrieve with the hybrid search, the keyword search runs     *)
(* over the documents of the semantic pool only: every candidate of the    *)
(* fused list and every result is a document of the semantic results, and  *)
(* under a filter every result satisfies the filter, by its own keys or by *)
(* its metadata.  Stated as the claim; the keyword search is given every   *)
(* document of the store.                                                  *)
(***************************************************************************)
SemanticPool == {Bare(call.semantic_results[i]) : i \in 1..Len(call.semantic_results)}

C25_LexicalWithinSemanticPool ==
    RetrieveReturned =>
        /\ \A i \in 1..Len(call.keyword_results) :
              Bare(call.keyword_results[i]) \in SemanticPool
        /\ \A i \in 1..Len(call.combined_results) :
              Bare(call.combined_results[i]) \in SemanticPool
        /\ \A i \in 1..Len(ret.results) :
              /\ Bare(ret.results[i]) \in SemanticPool
              /\ \/ Matches(ret.results[i], call.filter_dict)
                 \/ MetadataMatches(ret.results[i], call.filter_dict)

(***************************************************************************)
(* C26.  A retrieve whose hybrid search is off for the call, or on with    *)
(* nltk missing or raising, returns, and the candidates it hands to the    *)
(* threshold step are the results of the semantic search, in their order   *)
(* and with their scores.                                                  *)
(***************************************************************************)
C26_SemanticOnlyPassThrough ==
    (call.op = "retrieve" /\ (~call.hybrid_search_enabled \/ retriever.nltk # "loaded"))
        => /\ ret.kind = "return"
           /\ ~call.fusion_ran
           /\ call.combined = call.semantic_results

(* a hybrid search that was asked for and raised, over several results *)
C26_Witness ==
    /\ call.op = "retrieve"
    /\ call.hybrid_search_enabled
    /\ retriever.nltk = "broken"
    /\ Len(call.semantic_results) >= 2
    /\ call.combined = call.semantic_results
    /\ ret.results # <<>>

StageOrder ==
    <<"embed_text", "similarity_search", "fusion", "threshold", "reranker", "return">>

StageIndex(stage) == CHOOSE i \in 1..Len(StageOrder) : StageOrder[i] = stage

(***************************************************************************)
(* C27.  The stages of one retrieve run in the order query embedding,      *)
(* semantic search, fusion if any, threshold filter, reranking if any,     *)
(* return, each at most once.  The reranker is called at most once, and    *)
(* when it is called the reranking is enabled for the call and the list it *)
(* is given is not empty and is the list the threshold step handed on,     *)
(* with no candidate in it whose score is below a threshold other than 0.  *)
(* Stated as the claim; the threshold step filters only thresholds above   *)
(* 0, so under a negative threshold the reranker is given candidates below *)
(* the threshold.                                                          *)
(***************************************************************************)
C27_StagesInOrderRerankerOnce ==
    call.op = "retrieve" =>
        /\ \A i, j \in 1..Len(call.stages) :
              i < j => StageIndex(call.stages[i]) < StageIndex(call.stages[j])
        /\ Len(call.reranker_calls) <= 1
        /\ \A n \in 1..Len(call.reranker_calls) :
              /\ call.reranking_enabled
              /\ call.reranker_calls[n] # <<>>
              /\ call.reranker_calls[n] = call.candidates
              /\ call.similarity_threshold # Rational(0, 1) =>
                    \A i \in 1..Len(call.reranker_calls[n]) :
                        ~ScoreLess(call.reranker_calls[n][i].similarity_score,
                                   ToScore(call.similarity_threshold))

(***************************************************************************)
(* C28.  A search of the store and a retrieve, whatever arguments the call *)
(* overrides and whether the fusion and the reranking run or not, leave    *)
(* the documents of the store (every field of each, no score added), its   *)
(* matrix and its metric, and the defaults of the retriever as they were.  *)
(***************************************************************************)
C28_SearchAndRetrieveReadOnly ==
    [][call'.op \in {"similarity_search", "retrieve"}
          => UNCHANGED <<documents, embedding_matrix, distance_metric, retriever>>]_vars

(* a retrieve with top_k overridden that fused and reranked, the scores on *)
(* what it returned and not on the stored documents *)
C28_Witness ==
    /\ call.op = "retrieve"
    /\ call.top_k # retriever.top_k
    /\ call.fusion_ran
    /\ call.rerank = "ran"
    /\ Len(ret.results) >= 2
    /\ \A i \in 1..Len(ret.results) :
          {"similarity_score", "keyword_score", "rerank_score"} \subseteq DOMAIN ret.results[i]
    /\ \A i \in 1..Len(documents) : DOMAIN documents[i] \cap ScoreFields = {}
    /\ Len(documents) = Len(embedding_matrix)

(* what the retrieve just made may return when it is made again with the   *)
(* reranking switched the other way, every other argument as it was        *)
OtherRerankingOutcomes ==
    RetrieveOutcomes(call.query, Given(call.top_k),
                     Given(call.similarity_threshold), call.filter_dict,
                     Given(~call.reranking_enabled),
                     Given(call.hybrid_search_enabled),
                     Given(call.hybrid_search_weight))

(***************************************************************************)
(* C29.  With a retriever that has no reranker, a retrieve that returned   *)
(* returns the same list when it is made with reranking_enabled the other  *)
(* way, true for false or false for true, on the same store with the same  *)
(* query, top_k, threshold and hybrid settings.  Stated as the claim; the   *)
(* call with reranking_enabled true searches and fuses 3 * top_k           *)
(* candidates, and the fused scores and the order of a pool of that size   *)
(* are not those of a pool of top_k.                                       *)
(***************************************************************************)
C29_RerankingFlagWithoutReranker ==
    (RetrieveReturned /\ retriever.reranker = "none")
        => \A outcome \in OtherRerankingOutcomes :
              /\ outcome[2].kind = "return"
              /\ outcome[2].results = ret.results

(* the score a result list has for the document a candidate carries, 0     *)
(* when the document is not in the list                                    *)
ScoreComputedFor(results, field, candidate) ==
    IF \E j \in 1..Len(results) : Bare(results[j]) = Bare(candidate)
    THEN results[CHOOSE j \in 1..Len(results) :
                     Bare(results[j]) = Bare(candidate)][field]
    ELSE Score(0, 1)

(* what the retrieve just made may return when it is made without the      *)
(* hybrid search, every other argument as it was                           *)
SemanticOnlyOutcomes ==
    RetrieveOutcomes(call.query, Given(call.top_k),
                     Given(call.similarity_threshold), call.filter_dict,
                     Given(call.reranking_enabled), Given(FALSE),
                     Given(call.hybrid_search_weight))

(***************************************************************************)
(* C30.  Every candidate of a fusion has as semantic_score and             *)
(* keyword_score the scores that the semantic and the keyword search gave  *)
(* to the document whose text and metadata it carries, and with threshold  *)
(* 0 the retrieve returns as many results as the same retrieve without the *)
(* hybrid search, also when documents of the store share a doc_id.  Stated *)
(* as the claim; the fusion keeps one candidate for a doc_id, the first    *)
(* document found with it under the scores of the last.                    *)
(***************************************************************************)
C30_NoMergeOfDistinctDocuments ==
    (RetrieveReturned /\ call.fusion_ran)
        => /\ \A i \in 1..Len(call.combined_results) :
                 LET candidate == call.combined_results[i]
                 IN  /\ candidate.semantic_score =
                            ScoreComputedFor(call.semantic_results,
                                             "similarity_score", candidate)
                     /\ candidate.keyword_score =
                            ScoreComputedFor(call.keyword_results,
                                             "keyword_score", candidate)
           /\ call.similarity_threshold = Rational(0, 1) =>
                 \A outcome \in SemanticOnlyOutcomes :
                     /\ outcome[2].kind = "return"
                     /\ Len(outcome[2].results) = Len(ret.results)

=============================================================================
